---- MODULE Spec2Model ----
(***************************************************************************)
(* A state-machine model of janus-app: the plugin entry points of          *)
(* src/src/plugin.rs (init, destroy, create_session, handle_message, the   *)
(* media events, destroy_session, query_session), the thread-local APP     *)
(* container, the handle registry of src/src/plugin/handle_registry.rs,    *)
(* the callback dispatcher (mpsc channel plus worker thread), the           *)
(* reference-counting registry of src/src/handle_registry.rs, and the      *)
(* serialize / deserialize pair that carries values to and from the wire.  *)
(***************************************************************************)
EXTENDS Integers, Sequences, FiniteSets, TLC

\* ------------------------------------------------------------------ bounds
\* Native sessions the host owns (raw handle pointers).
NumSessions == 2
\* Host threads that call the entry points.
NumHostThreads == 2
\* Successful init calls (each starts one channel and one worker thread).
MaxInits == 2
\* Commands submitted through CallbackDispatcher::dispatch.
MaxSent == 2
\* Calls on the reference-counting registry of src/src/handle_registry.rs.
MaxRegOps == 5

VARIABLES APP, queue, worker, tasks, calls, ninit, sent, lifecycle, stale,
          handles, ref_count, acquired, released, regops,
          typed, wire, origin, back

vars == <<APP, queue, worker, tasks, calls, ninit, sent, lifecycle, stale,
          handles, ref_count, acquired, released, regops,
          typed, wire, origin, back>>

appvars == <<APP, queue, worker, tasks, calls, ninit, sent, lifecycle, stale>>

regvars == <<handles, ref_count, acquired, released, regops>>

\* A typed value, the wire document made of it or received for it, who made
\* the document, and what reading the document back gave.
wirevars == <<typed, wire, origin, back>>

\* ------------------------------------------------------------ host objects
\* *mut JanusPluginSession values the host passes to the entry points.
RawHandles == 1..NumSessions

\* The host's janus_ice_handle behind each session's gateway_handle.
janus_ice_handle == [p \in RawHandles |-> [session |-> 0, handle_id |-> 100 + p]]

fetch_id(raw_handle) == janus_ice_handle[raw_handle].handle_id

HandleIds == {fetch_id(p) : p \in RawHandles}

HostThreads == 1..NumHostThreads

Channels == 1..MaxInits

\* The thread spawned by CallbackDispatcherBackend::start for channel c.
WorkerThread(c) == NumHostThreads + c

Threads == 1..(NumHostThreads + MaxInits)

\* ------------------------------------------------------------------ Result
Ok(v) == [ok |-> TRUE, val |-> v]

Err(detail) == [ok |-> FALSE, err |-> detail]

None == [some |-> FALSE]

Some(v) == [some |-> TRUE, val |-> v]

\* --------------------------------------- src/src/plugin/handle_registry.rs
Entry_new(raw_handle, plugin_handle) == [raw_handle |-> raw_handle, plugin_handle |-> plugin_handle]

HandleRegistry_new == << >>

get_by_id(reg, id) == IF id \in DOMAIN reg THEN Some(reg[id]) ELSE None

\* A lookup that takes the pointer itself for the key.
get_by_raw_handle_unfetched(reg, raw_handle_ptr) == get_by_id(reg, raw_handle_ptr)

get_by_raw_handle(reg, raw_handle_ptr) == get_by_id(reg, fetch_id(raw_handle_ptr))

\* HashMap::insert
insert(reg, id, entry) == [k \in DOMAIN reg \cup {id} |-> IF k = id THEN entry ELSE reg[k]]

\* A remove that empties the map.
hash_remove_all(reg, id) == << >>

\* HashMap::remove
hash_remove(reg, id) == [k \in DOMAIN reg \ {id} |-> reg[k]]

\* An add without the check for an existing entry.
add_replacing(reg, raw_handle_ptr, plugin_handle) ==
    LET id == fetch_id(raw_handle_ptr)
        reg2 == insert(reg, id, Entry_new(raw_handle_ptr, plugin_handle))
    IN [reg |-> reg2, result |-> Ok(get_by_id(reg2, id).val)]

\* The registry after add, and add's result.
add(reg, raw_handle_ptr, plugin_handle) ==
    IF get_by_raw_handle(reg, raw_handle_ptr).some
    THEN [reg |-> reg, result |-> Err("Handle already registered")]
    ELSE LET id == fetch_id(raw_handle_ptr)
             reg2 == insert(reg, id, Entry_new(raw_handle_ptr, plugin_handle))
         IN [reg |-> reg2,
             result |-> IF get_by_id(reg2, id).some
                        THEN Ok(get_by_id(reg2, id).val)
                        ELSE Err("Failed to register handle with id")]

remove(reg, raw_handle_ptr) ==
    [reg |-> hash_remove(reg, fetch_id(raw_handle_ptr)), result |-> Ok("unit")]

\* ------------------------------------------------------- src/src/plugin.rs
\* A dispatcher that keeps the channel where the identity belongs.
CallbackDispatcher_new_untagged(tx, handle_id) == [tx |-> tx, handle_id |-> tx]

CallbackDispatcher_new(tx, handle_id) == [tx |-> tx, handle_id |-> handle_id]

CallbackDispatch_new(handle_id, callback) == [handle_id |-> handle_id, callback |-> callback]

\* thread_local! APP: every thread reads its own cell.
with_app(t) == APP[t]

App_new(plugin, tx) ==
    [some |-> TRUE, plugin |-> plugin, callback_dispatcher_tx |-> tx,
     handle_registry |-> HandleRegistry_new]

\* App::build_handle. Every call makes a new handle object: fresh tells it apart
\* from the one the registry may already hold under the same id.
build_handle(app, id) ==
    LET e == get_by_id(app.handle_registry, id)
    IN [id |-> id, fresh |-> IF e.some THEN 1 - e.val.plugin_handle.fresh ELSE 0,
        callback_dispatcher |-> CallbackDispatcher_new(app.callback_dispatcher_tx, id)]

\* deserialize::<IncomingMessagePayload>: #[serde(rename_all = "lowercase", tag = "method")]
deserialize_payload(json) ==
    IF {"method", "data"} \subseteq DOMAIN json /\ json.method = "ping"
    THEN Ok([variant |-> "Ping", data |-> json.data])
    ELSE Err("Failed to deserialize JSON")

\* deserialize::<Jsep>: #[serde(rename_all = "lowercase", tag = "type")]
deserialize_jsep(json) ==
    IF ~({"type", "sdp"} \subseteq DOMAIN json) THEN Err("Failed to deserialize JSON")
    ELSE IF json.type = "offer" THEN Ok([variant |-> "Offer", sdp |-> json.sdp])
    ELSE IF json.type = "answer" THEN Ok([variant |-> "Answer", sdp |-> json.sdp])
    ELSE Err("Failed to deserialize JSON")

\* A Jsep written under the names of its variants as they are, without rename_all.
serialize_jsep_unrenamed(jsep) ==
    IF jsep.variant = "Offer" THEN [type |-> "Offer", sdp |-> jsep.sdp]
    ELSE [type |-> "Answer", sdp |-> jsep.sdp]

\* serialize::<Jsep>
serialize_jsep(jsep) ==
    IF jsep.variant = "Offer" THEN [type |-> "offer", sdp |-> jsep.sdp]
    ELSE [type |-> "answer", sdp |-> jsep.sdp]

\* serialize::<OutgoingMessagePayload>: the externally tagged serde default.
serialize_payload(payload) == [Pong |-> [data |-> payload.data]]

IncomingMessage_new(transaction, payload) ==
    [transaction |-> transaction, payload |-> payload, jsep |-> None]

OutgoingMessage_new(transaction, payload) ==
    [transaction |-> transaction, payload |-> payload, jsep |-> None]

\* mpsc::Sender::send on channel c: fails once the receiver is gone.
send(c, callback_dispatch) ==
    IF worker[c] = "running"
    THEN [queue |-> [queue EXCEPT ![c] = Append(@, callback_dispatch)], result |-> Ok("unit")]
    ELSE [queue |-> queue, result |-> Err("Failed to dispatch callback")]

\* CallbackDispatcher::dispatch
CallbackDispatcher_dispatch(dispatcher, callback) ==
    LET s == send(dispatcher.tx, CallbackDispatch_new(dispatcher.handle_id, callback))
    IN [panic |-> FALSE, queue |-> s.queue, result |-> s.result]

\* Vec::with_capacity(buffer.len()) has length 0, and copy_from_slice panics
\* when the two lengths differ.
copy_from_slice_panics(buffer) == Len(buffer) # 0

CallbackDispatcher_relay_media_packet(dispatcher, protocol, kind, buffer) ==
    IF copy_from_slice_panics(buffer)
    THEN [panic |-> TRUE, queue |-> queue, result |-> Err("copy_from_slice: length mismatch")]
    ELSE CallbackDispatcher_dispatch(dispatcher,
             [tag |-> "RelayMediaPacket", protocol |-> protocol, kind |-> kind, buffer |-> << >>])

CallbackDispatcher_relay_data_packet(dispatcher, buffer) ==
    IF copy_from_slice_panics(buffer)
    THEN [panic |-> TRUE, queue |-> queue, result |-> Err("copy_from_slice: length mismatch")]
    ELSE CallbackDispatcher_dispatch(dispatcher, [tag |-> "RelayDataPacket", buffer |-> << >>])

CallbackDispatcher_close_peer_connection(dispatcher) ==
    CallbackDispatcher_dispatch(dispatcher, [tag |-> "ClosePeerConnection"])

CallbackDispatcher_end_handle(dispatcher) ==
    CallbackDispatcher_dispatch(dispatcher, [tag |-> "EndHandle"])

CallbackDispatcher_notify_event(dispatcher, event) ==
    CallbackDispatcher_dispatch(dispatcher, [tag |-> "NotifyEvent", event |-> event])

CallbackDispatcher_push_event(dispatcher, message) ==
    CallbackDispatcher_dispatch(dispatcher, [tag |-> "PushEvent", message |-> message])

\* The calls application code makes on a dispatcher, push_event aside.
DispatcherCalls ==
    {[fn |-> "close_peer_connection"], [fn |-> "end_handle"],
     [fn |-> "notify_event", event |-> "e"]}
        \cup {[fn |-> "relay_data_packet", buffer |-> b] : b \in {<< >>, <<7>>}}
        \cup {[fn |-> "relay_media_packet", protocol |-> "Rtp", kind |-> "Video", buffer |-> b] :
                 b \in {<< >>, <<7>>}}
        \cup {[fn |-> "relay_media_packet", protocol |-> "Rtcp", kind |-> "Audio", buffer |-> << >>]}

\* The calls the application tasks of this model make.
TaskCalls == {[fn |-> "relay_data_packet", buffer |-> b] : b \in {<< >>, <<7>>}}

dispatcher_call(dispatcher, call) ==
    CASE call.fn = "close_peer_connection" -> CallbackDispatcher_close_peer_connection(dispatcher)
      [] call.fn = "end_handle" -> CallbackDispatcher_end_handle(dispatcher)
      [] call.fn = "notify_event" -> CallbackDispatcher_notify_event(dispatcher, call.event)
      [] call.fn = "relay_data_packet" ->
             CallbackDispatcher_relay_data_packet(dispatcher, call.buffer)
      [] call.fn = "relay_media_packet" ->
             CallbackDispatcher_relay_media_packet(dispatcher, call.protocol, call.kind, call.buffer)

\* Whether a Sender of channel c is alive: the App's own (the clones inside the
\* handles of its registry live and die with it) or a clone an application task holds.
HasSenders(c) ==
    \/ \E t \in Threads : APP[t].some /\ APP[t].callback_dispatcher_tx = c
    \/ \E k \in tasks : k.dispatcher.tx = c

\* The c_int an entry point reports for a Result.
return_code(result) == IF result.ok THEN 0 ELSE 1

\* ------------------------------------------------------------ entry points
\* An init_impl that builds the App before it has the plugin.
init_impl_eager(t, path_ok, plugin_ok) ==
    IF with_app(t).some THEN [result |-> Err("Plugin already initialized"), app |-> with_app(t)]
    ELSE IF ~path_ok
         THEN [result |-> Err("Failed to cast config path"), app |-> App_new(ninit + 1, ninit + 1)]
    ELSE IF ~plugin_ok
         THEN [result |-> Err("Failed to init plugin"), app |-> App_new(ninit + 1, ninit + 1)]
    ELSE [result |-> Ok("unit"), app |-> App_new(ninit + 1, ninit + 1)]

\* init_impl on thread t: its result and the thread's APP cell afterwards.
init_impl(t, path_ok, plugin_ok) ==
    IF with_app(t).some THEN [result |-> Err("Plugin already initialized"), app |-> with_app(t)]
    ELSE IF ~path_ok THEN [result |-> Err("Failed to cast config path"), app |-> with_app(t)]
    ELSE IF ~plugin_ok THEN [result |-> Err("Failed to init plugin"), app |-> with_app(t)]
    ELSE [result |-> Ok("unit"), app |-> App_new(ninit + 1, ninit + 1)]

\* App::new starts the channel and the worker of the new App.
init(t, path_ok, plugin_ok) ==
    LET r == init_impl(t, path_ok, plugin_ok) IN
    /\ r.result.ok => ninit < MaxInits
    /\ APP' = [APP EXCEPT ![t] = r.app]
    /\ IF r.result.ok
       THEN /\ ninit' = ninit + 1
            /\ worker' = [worker EXCEPT ![ninit + 1] = "running"]
            /\ lifecycle' = "Initialized"
       ELSE UNCHANGED <<ninit, worker, lifecycle>>
    /\ UNCHANGED <<queue, tasks, calls, sent, stale>>
    /\ UNCHANGED regvars
    /\ UNCHANGED wirevars

destroy(t) ==
    /\ APP' = [APP EXCEPT ![t] = None]
    /\ lifecycle' = "Uninitialized"
    /\ stale' = IF with_app(t).some
                THEN [stale EXCEPT ![with_app(t).callback_dispatcher_tx] =
                         [i \in 1..Len(@) |-> TRUE]]
                ELSE stale
    /\ UNCHANGED <<queue, worker, tasks, calls, ninit, sent>>
    /\ UNCHANGED regvars
    /\ UNCHANGED wirevars

\* A create_session_impl that inserts without looking for an existing entry.
create_session_impl_overwriting(t, raw_handle) ==
    LET app == with_app(t) IN
    IF ~app.some THEN [app |-> app, result |-> Err("Plugin not initialized"), built |-> 0]
    ELSE LET handle_id == fetch_id(raw_handle)
             entry == Entry_new(raw_handle, build_handle(app, handle_id))
         IN [app |-> [app EXCEPT !.handle_registry = insert(@, handle_id, entry)],
             result |-> Ok("unit"), built |-> 1]

\* create_session_impl on thread t: its result, the thread's APP cell afterwards,
\* and how many handles Plugin::build_handle built.
create_session_impl(t, raw_handle) ==
    LET app == with_app(t) IN
    IF ~app.some THEN [app |-> app, result |-> Err("Plugin not initialized"), built |-> 0]
    ELSE LET handle_id == fetch_id(raw_handle)
             plugin_handle == build_handle(app, handle_id)
             handle_registry == app.handle_registry
         IN IF get_by_raw_handle(handle_registry, raw_handle).some
            THEN [app |-> app, result |-> Err("Handle already registered"), built |-> 1]
            ELSE LET a == add(handle_registry, raw_handle, plugin_handle)
                 IN [app |-> [app EXCEPT !.handle_registry = a.reg],
                     result |-> IF a.result.ok THEN Ok("unit")
                                ELSE Err("Failed to register handle"),
                     built |-> 1]

create_session(t, raw_handle) ==
    /\ APP' = [APP EXCEPT ![t] = create_session_impl(t, raw_handle).app]
    /\ UNCHANGED <<queue, worker, tasks, calls, ninit, sent, lifecycle, stale>>
    /\ UNCHANGED regvars
    /\ UNCHANGED wirevars

\* The commands of a queue that were submitted under a registration that is
\* gone: those already so, and now those of identity id.
unregistered(flags, commands, id) ==
    [i \in 1..Len(flags) |-> flags[i] \/ commands[i].handle_id = id]

\* A destroy_session_impl that tears the container down with the session.
destroy_session_impl_resetting(t, raw_handle) ==
    LET app == with_app(t) IN
    IF ~app.some THEN [app |-> app, result |-> Err("Plugin not initialized")]
    ELSE [app |-> None, result |-> Ok("unit")]

destroy_session_impl(t, raw_handle) ==
    LET app == with_app(t) IN
    IF ~app.some THEN [app |-> app, result |-> Err("Plugin not initialized")]
    ELSE LET r == remove(app.handle_registry, raw_handle)
         IN [app |-> [app EXCEPT !.handle_registry = r.reg], result |-> r.result]

destroy_session(t, raw_handle) ==
    /\ APP' = [APP EXCEPT ![t] = destroy_session_impl(t, raw_handle).app]
    /\ stale' = IF with_app(t).some
                THEN LET c == with_app(t).callback_dispatcher_tx
                     IN [stale EXCEPT ![c] = unregistered(@, queue[c], fetch_id(raw_handle))]
                ELSE stale
    /\ UNCHANGED <<queue, worker, tasks, calls, ninit, sent, lifecycle>>
    /\ UNCHANGED regvars
    /\ UNCHANGED wirevars

\* The messages the host hands to handle_message: the transaction bytes, the
\* payload document and the jsep document (or a null pointer).
Messages ==
    {[transaction_ok |-> TRUE, transaction |-> "t1", payload |-> [method |-> "ping", data |-> "x"],
      jsep |-> None],
     [transaction_ok |-> TRUE, transaction |-> "t1", payload |-> [method |-> "ping", data |-> "x"],
      jsep |-> Some([type |-> "offer", sdp |-> "v=0"])],
     [transaction_ok |-> TRUE, transaction |-> "t1", payload |-> [method |-> "bogus", data |-> "x"],
      jsep |-> None],
     [transaction_ok |-> TRUE, transaction |-> "t2", payload |-> [method |-> "ping", data |-> "x"],
      jsep |-> Some([type |-> "pranswer", sdp |-> "v=0"])],
     [transaction_ok |-> FALSE, transaction |-> "t1", payload |-> [method |-> "ping", data |-> "x"],
      jsep |-> Some([type |-> "answer", sdp |-> "v=0"])]}

\* What Handle::handle_message may answer.
HandlerOutcomes == {"Err", "Ack", "Syncronous"}

\* handle_message_impl: its result and whether Handle::handle_message ran.
handle_message_impl(t, raw_handle, m, outcome) ==
    LET app == with_app(t) IN
    IF ~app.some THEN [result |-> Err("Plugin not initialized"), handled |-> FALSE]
    ELSE LET e == get_by_raw_handle(app.handle_registry, raw_handle) IN
         IF ~e.some THEN [result |-> Err("Handle not found"), handled |-> FALSE]
         ELSE IF ~m.transaction_ok
              THEN [result |-> Err("Failed to cast transaction"), handled |-> FALSE]
         ELSE IF ~deserialize_payload(m.payload).ok
              THEN [result |-> deserialize_payload(m.payload), handled |-> FALSE]
         ELSE IF m.jsep.some /\ ~deserialize_jsep(m.jsep.val).ok
              THEN [result |-> deserialize_jsep(m.jsep.val), handled |-> FALSE]
         ELSE [handled |-> TRUE,
               result |->
                   CASE outcome = "Err" -> Err("Error handlung message")
                     [] outcome = "Ack" ->
                            Ok([type_ |-> "JANUS_PLUGIN_OK_WAIT", text |-> "", content |-> None])
                     [] outcome = "Syncronous" ->
                            Ok([type_ |-> "JANUS_PLUGIN_OK", text |-> "",
                                content |-> Some(serialize_payload(
                                    [variant |-> "Pong",
                                     data |-> deserialize_payload(m.payload).val.data]))])]

\* The JanusPluginResult handle_message makes of handle_message_impl's result.
plugin_result(result) ==
    IF result.ok THEN result.val
    ELSE [type_ |-> "JANUS_PLUGIN_ERROR", text |-> result.err, content |-> None]

\* The frame of handle_message once it has returned: the slot of the local
\* plugin_result may still hold what was written, or the host's next calls may
\* have overwritten it.
StackSlots == {"intact", "overwritten"}

\* What the host reads through the pointer handle_message returns. The pointer
\* is `&mut plugin_result`, the address of a local of the frame that is gone.
handle_message_returned(t, raw_handle, m, outcome, slot) ==
    IF slot = "intact"
    THEN plugin_result(handle_message_impl(t, raw_handle, m, outcome).result)
    ELSE [type_ |-> "overwritten", text |-> "overwritten", content |-> Some("overwritten")]

\* The task a handler that answers Ack may start: an application thread that
\* holds a clone of the handle's dispatcher and the message's transaction.
deferred_task(t, raw_handle, m) ==
    [dispatcher |->
         get_by_raw_handle(with_app(t).handle_registry, raw_handle).val.plugin_handle.callback_dispatcher,
     transaction |-> m.transaction]

handle_message(t, raw_handle, m, outcome, spawn) ==
    LET r == handle_message_impl(t, raw_handle, m, outcome) IN
    /\ spawn => r.handled /\ outcome = "Ack" /\ sent + Cardinality(tasks) < MaxSent
    /\ \A slot \in StackSlots :
          handle_message_returned(t, raw_handle, m, outcome, slot).type_ # ""
    /\ tasks' = IF spawn THEN tasks \cup {deferred_task(t, raw_handle, m)} ELSE tasks
    /\ UNCHANGED <<APP, queue, worker, calls, ninit, sent, lifecycle, stale>>
    /\ UNCHANGED regvars
    /\ UNCHANGED wirevars

MediaEvents == {"Setup", "Rtp", "Rtcp", "Data", "SlowLink", "Hangup"}

\* dispatch_media_event: its result and whether Handle::handle_media_event ran.
dispatch_media_event(t, raw_handle, media_event) ==
    LET app == with_app(t) IN
    IF ~app.some THEN [result |-> Err("Plugin not initialized"), handled |-> FALSE]
    ELSE IF ~get_by_raw_handle(app.handle_registry, raw_handle).some
         THEN [result |-> Err("Handle not found"), handled |-> FALSE]
         ELSE [result |-> Ok("unit"), handled |-> TRUE]

\* Media events of which Hangup takes the session out of the registry.
media_event_unregistering(t, raw_handle, ev) ==
    /\ APP' = IF ev = "Hangup"
              THEN [APP EXCEPT ![t] = destroy_session_impl(t, raw_handle).app]
              ELSE APP
    /\ UNCHANGED <<queue, worker, tasks, calls, ninit, sent, lifecycle, stale>>
    /\ UNCHANGED regvars
    /\ UNCHANGED wirevars

\* setup_media, incoming_rtp, incoming_rtcp, incoming_data, slow_link, hangup_media:
\* each only logs the error of dispatch_media_event.
media_event(t, raw_handle, ev) ==
    /\ dispatch_media_event(t, raw_handle, ev).result.ok \in BOOLEAN
    /\ UNCHANGED appvars
    /\ UNCHANGED regvars
    /\ UNCHANGED wirevars

\* serialize(plugin_handle): #[derive(Serialize)] with the dispatcher skipped.
serialize_handle(plugin_handle) == [id |-> plugin_handle.id]

query_session_impl(t, raw_handle) ==
    LET app == with_app(t) IN
    IF ~app.some THEN Err("Plugin not initialized")
    ELSE LET e == get_by_raw_handle(app.handle_registry, raw_handle) IN
         IF ~e.some THEN Err("Handle not found")
         ELSE Ok(serialize_handle(e.val.plugin_handle))

\* The pointer query_session returns: the document, or null for an error.
query_session_returned(t, raw_handle) ==
    LET r == query_session_impl(t, raw_handle)
    IN IF r.ok THEN Some(r.val) ELSE None

query_session(t, raw_handle) ==
    /\ query_session_returned(t, raw_handle).some \in BOOLEAN
    /\ UNCHANGED appvars
    /\ UNCHANGED regvars
    /\ UNCHANGED wirevars

\* ------------------------------------------------------ application tasks
\* The message a task pushes: its transaction, and a payload that numbers the
\* submissions.
task_message(k) == OutgoingMessage_new(k.transaction, [variant |-> "Pong", data |-> sent + 1])

\* Whether the App that owns channel c holds an entry for identity id.
OwnerRegistered(c, id) ==
    \E t \in Threads :
        /\ with_app(t).some
        /\ with_app(t).callback_dispatcher_tx = c
        /\ get_by_id(with_app(t).handle_registry, id).some

\* The flags once the dispatcher's send has made the queues new_queue: a
\* command sent while its identity has no registration starts out as one of a
\* registration that is gone.
submitted(dispatcher, new_queue) ==
    [c \in Channels |->
        IF Len(new_queue[c]) > Len(queue[c])
        THEN Append(stale[c], ~OwnerRegistered(c, dispatcher.handle_id))
        ELSE stale[c]]

task_push_event(k) ==
    /\ sent < MaxSent
    /\ sent' = sent + 1
    /\ queue' = CallbackDispatcher_push_event(k.dispatcher, task_message(k)).queue
    /\ stale' = submitted(k.dispatcher, queue')
    /\ UNCHANGED <<APP, worker, tasks, calls, ninit, lifecycle>>
    /\ UNCHANGED regvars
    /\ UNCHANGED wirevars

\* A task makes another dispatcher call; a panic ends the task.
task_call(k, call) ==
    LET r == dispatcher_call(k.dispatcher, call) IN
    /\ sent < MaxSent
    /\ sent' = sent + 1
    /\ queue' = r.queue
    /\ stale' = submitted(k.dispatcher, r.queue)
    /\ tasks' = IF r.panic THEN tasks \ {k} ELSE tasks
    /\ UNCHANGED <<APP, worker, calls, ninit, lifecycle>>
    /\ UNCHANGED regvars
    /\ UNCHANGED wirevars

\* A task ends and drops its clone of the dispatcher.
task_done(k) ==
    /\ tasks' = tasks \ {k}
    /\ UNCHANGED <<APP, queue, worker, calls, ninit, sent, lifecycle, stale>>
    /\ UNCHANGED regvars
    /\ UNCHANGED wirevars

\* ------------------------------------------------ CallbackDispatcherBackend
\* Self::raw_handle: P::with_app and borrow_mut on the thread's RefCell, which
\* panics while `readers` shared borrows of it are alive.
raw_handle(t, handle, readers) ==
    IF readers > 0
    THEN [panic |-> TRUE, result |-> Err("already borrowed: BorrowMutError")]
    ELSE LET app == with_app(t) IN
         IF ~app.some THEN [panic |-> FALSE, result |-> Err("Plugin not initialized")]
         ELSE LET e == get_by_id(app.handle_registry, handle.id) IN
              IF ~e.some THEN [panic |-> FALSE, result |-> Err("Handle not found")]
              ELSE [panic |-> FALSE, result |-> Ok(e.val.raw_handle)]

\* Resolve the raw handle, then call host function fn with it; rc is what the
\* host function returns.
janus_callback(t, handle, readers, fn, args, rc) ==
    LET rh == raw_handle(t, handle, readers) IN
    IF rh.panic \/ ~rh.result.ok
    THEN [panic |-> rh.panic, result |-> rh.result, calls |-> calls]
    ELSE [panic |-> FALSE,
          result |-> IF rc = 0 THEN Ok("unit") ELSE Err("Failed to push event"),
          calls |-> Append(calls, [fn |-> fn, raw_handle |-> rh.result.val, args |-> args])]

Backend_relay_media_packet(t, handle, protocol, kind, buffer, readers) ==
    janus_callback(t, handle, readers, IF protocol = "Rtp" THEN "relay_rtp" ELSE "relay_rtcp",
                   [is_video |-> IF kind = "Video" THEN 1 ELSE 0, buffer |-> buffer], 0)

Backend_relay_data_packet(t, handle, buffer, readers) ==
    janus_callback(t, handle, readers, "relay_data", [buffer |-> buffer], 0)

Backend_close_peer_connection(t, handle, readers) ==
    janus_callback(t, handle, readers, "close_pc", [none |-> TRUE], 0)

Backend_end_handle(t, handle, readers) ==
    janus_callback(t, handle, readers, "end_session", [none |-> TRUE], 0)

Backend_notify_event(t, handle, event, readers) ==
    janus_callback(t, handle, readers, "notify_event", [event |-> event], 0)

\* The arguments of the host's push_event for a message.
push_event_args(message) ==
    [transaction |-> message.transaction,
     payload |-> serialize_payload(message.payload),
     jsep |-> IF message.jsep.some THEN Some(serialize_jsep(message.jsep.val)) ELSE None]

Backend_push_event(t, handle, message, readers, rc) ==
    janus_callback(t, handle, readers, "push_event", push_event_args(message), rc)

\* A dispatch that trusts the identity in the command and calls the host
\* without looking the session up.
Backend_dispatch_cached(t, callback_dispatch, rc) ==
    [panic |-> FALSE, result |-> Ok("unit"),
     calls |-> Append(calls, [fn |-> callback_dispatch.callback.tag,
                              raw_handle |-> callback_dispatch.handle_id - 100,
                              args |-> callback_dispatch.callback])]

\* CallbackDispatcherBackend::dispatch on thread t; the shared borrow taken by
\* `match &*app_ref.borrow()` is alive in every arm.
Backend_dispatch(t, callback_dispatch, rc) ==
    LET app == with_app(t) IN
    IF ~app.some
    THEN [panic |-> FALSE, result |-> Err("Plugin not initialized"), calls |-> calls]
    ELSE LET e == get_by_id(app.handle_registry, callback_dispatch.handle_id) IN
         IF ~e.some
         THEN [panic |-> FALSE, result |-> Err("Handle not found"), calls |-> calls]
         ELSE LET handle == e.val.plugin_handle
                  cb == callback_dispatch.callback
              IN CASE cb.tag = "RelayMediaPacket" ->
                          Backend_relay_media_packet(t, handle, cb.protocol, cb.kind, cb.buffer, 1)
                   [] cb.tag = "RelayDataPacket" ->
                          Backend_relay_data_packet(t, handle, cb.buffer, 1)
                   [] cb.tag = "ClosePeerConnection" -> Backend_close_peer_connection(t, handle, 1)
                   [] cb.tag = "EndHandle" -> Backend_end_handle(t, handle, 1)
                   [] cb.tag = "NotifyEvent" -> Backend_notify_event(t, handle, cb.event, 1)
                   [] cb.tag = "PushEvent" ->
                          Backend_push_event(t, handle, cb.message, 1, rc)

\* A worker loop that gives up at the first command it cannot deliver.
deliver_stopping(c, rc) ==
    /\ worker[c] = "running"
    /\ queue[c] # << >>
    /\ LET d == Backend_dispatch(WorkerThread(c), Head(queue[c]), rc) IN
       /\ calls' = d.calls
       /\ worker' = IF d.panic \/ ~d.result.ok THEN [worker EXCEPT ![c] = "panicked"] ELSE worker
    /\ queue' = [queue EXCEPT ![c] = Tail(@)]
    /\ stale' = [stale EXCEPT ![c] = Tail(@)]
    /\ UNCHANGED <<APP, tasks, ninit, sent, lifecycle>>
    /\ UNCHANGED regvars
    /\ UNCHANGED wirevars

\* One turn of the worker's `for callback_dispatch in rx.into_iter()` loop; a
\* panic ends the worker thread.
deliver(c, rc) ==
    /\ worker[c] = "running"
    /\ queue[c] # << >>
    /\ LET d == Backend_dispatch(WorkerThread(c), Head(queue[c]), rc) IN
       /\ calls' = d.calls
       /\ worker' = IF d.panic THEN [worker EXCEPT ![c] = "panicked"] ELSE worker
    /\ queue' = [queue EXCEPT ![c] = Tail(@)]
    /\ stale' = [stale EXCEPT ![c] = Tail(@)]
    /\ UNCHANGED <<APP, tasks, ninit, sent, lifecycle>>
    /\ UNCHANGED regvars
    /\ UNCHANGED wirevars

\* rx.into_iter() ends once the queue is empty and every Sender is dropped.
worker_exit(c) ==
    /\ worker[c] = "running"
    /\ queue[c] = << >>
    /\ ~HasSenders(c)
    /\ worker' = [worker EXCEPT ![c] = "exited"]
    /\ UNCHANGED <<APP, queue, tasks, calls, ninit, sent, lifecycle, stale>>
    /\ UNCHANGED regvars
    /\ UNCHANGED wirevars

\* ------------------------------------------------ src/src/handle_registry.rs
\* The registry that counts references on the native sessions. H::new(id):
Handle_new(id) == [id |-> id]

\* add: its result, the map and the reference counts afterwards.
HandleRegistry_add_impl(raw_handle_ptr) ==
    LET id == fetch_id(raw_handle_ptr) IN
    IF id \in DOMAIN handles
    THEN [result |-> Err("Handle already registered"), handles |-> handles, ref_count |-> ref_count]
    ELSE LET handles2 == insert(handles, id, <<raw_handle_ptr, Handle_new(id)>>)
         IN [result |-> IF id \in DOMAIN handles2 THEN Ok(handles2[id])
                        ELSE Err("Failed to register handle with id"),
             handles |-> handles2,
             ref_count |-> [ref_count EXCEPT ![raw_handle_ptr] = @ + 1]]

HandleRegistry_add(raw_handle_ptr) ==
    LET r == HandleRegistry_add_impl(raw_handle_ptr) IN
    /\ regops < MaxRegOps
    /\ regops' = regops + 1
    /\ handles' = r.handles
    /\ ref_count' = r.ref_count
    /\ acquired' = [acquired EXCEPT ![raw_handle_ptr] = @ + (r.ref_count[raw_handle_ptr] - ref_count[raw_handle_ptr])]
    /\ UNCHANGED released
    /\ UNCHANGED appvars
    /\ UNCHANGED wirevars

\* remove: the count goes down whether or not the map held the id.
HandleRegistry_remove_impl(raw_handle_ptr) ==
    [result |-> Ok("unit"),
     handles |-> hash_remove(handles, fetch_id(raw_handle_ptr)),
     ref_count |-> [ref_count EXCEPT ![raw_handle_ptr] = @ - 1]]

HandleRegistry_remove(raw_handle_ptr) ==
    LET r == HandleRegistry_remove_impl(raw_handle_ptr) IN
    /\ regops < MaxRegOps
    /\ regops' = regops + 1
    /\ handles' = r.handles
    /\ ref_count' = r.ref_count
    /\ released' = [released EXCEPT ![raw_handle_ptr] = @ + (ref_count[raw_handle_ptr] - r.ref_count[raw_handle_ptr])]
    /\ UNCHANGED acquired
    /\ UNCHANGED appvars
    /\ UNCHANGED wirevars

\* Every session of the host, whether the map holds it or not.
Held_all == RawHandles

\* The sessions the map holds a reference to.
Held == {handles[id][1] : id \in DOMAIN handles}

HandleRegistry_clear ==
    /\ regops < MaxRegOps
    /\ regops' = regops + 1
    /\ ref_count' = [p \in RawHandles |-> IF p \in Held THEN ref_count[p] - 1 ELSE ref_count[p]]
    /\ released' = [p \in RawHandles |-> released[p] + (ref_count[p] - ref_count'[p])]
    /\ handles' = << >>
    /\ UNCHANGED acquired
    /\ UNCHANGED appvars
    /\ UNCHANGED wirevars

\* The registry goes away with the App that owns it (destroy sets the cell to
\* None): HandleRegistry has no Drop, so the map is freed and no count changes.
HandleRegistry_drop ==
    /\ regops < MaxRegOps
    /\ regops' = regops + 1
    /\ handles' = << >>
    /\ UNCHANGED <<ref_count, acquired, released>>
    /\ UNCHANGED appvars
    /\ UNCHANGED wirevars

\* ------------------------------------------------------ serialization bridge
\* The strings a payload or a session description carries.
Strings == {"", "x", "v=0", "a=sendrecv"}

\* The typed values that go over the wire in both directions: a ping-style
\* message payload and the two variants of Jsep.
TypedValues ==
    {[variant |-> "Ping", data |-> d] : d \in Strings}
        \cup {[variant |-> v, sdp |-> d] : v \in {"Offer", "Answer"}, d \in Strings}

\* The documents the host hands over: the payloads and jseps of Messages.
HostDocuments ==
    {m.payload : m \in Messages} \cup {m.jsep.val : m \in {n \in Messages : n.jsep.some}}

\* The ping-style payload written as serde writes an enum declared with
\* rename_all = "lowercase" and tag = "method".
serialize_ping(payload) == [method |-> "ping", data |-> payload.data]

\* serialize(object): the document for a typed value.
serialize(object) ==
    IF object.variant = "Ping" THEN Ok(serialize_ping(object)) ELSE Ok(serialize_jsep(object))

\* deserialize::<D>(json), D being the type of the value `like`.
deserialize(json, like) ==
    IF like.variant = "Ping" THEN deserialize_payload(json) ELSE deserialize_jsep(json)

\* The host hands a document over.
receive(doc) ==
    /\ wire' = Some(doc)
    /\ origin' = "host"
    /\ back' = None
    /\ UNCHANGED typed
    /\ UNCHANGED appvars
    /\ UNCHANGED regvars

\* The typed value is written to the wire.
to_wire ==
    /\ typed.some
    /\ wire' = IF serialize(typed.val).ok THEN Some(serialize(typed.val).val) ELSE None
    /\ origin' = "to_wire"
    /\ back' = None
    /\ UNCHANGED typed
    /\ UNCHANGED appvars
    /\ UNCHANGED regvars

\* The document on the wire is read back as a value of the type of `typed`.
from_wire ==
    /\ typed.some
    /\ wire.some
    /\ back' = Some(deserialize(wire.val, typed.val))
    /\ UNCHANGED <<typed, wire, origin>>
    /\ UNCHANGED appvars
    /\ UNCHANGED regvars

\* ----------------------------------------------------------- specification
WireIdle ==
    /\ typed = None
    /\ wire = None
    /\ origin = "none"
    /\ back = None

RegInit ==
    /\ handles = << >>
    /\ ref_count = [p \in RawHandles |-> 1]
    /\ acquired = [p \in RawHandles |-> 0]
    /\ released = [p \in RawHandles |-> 0]
    /\ regops = 0

AppInit ==
    /\ APP = [t \in Threads |-> None]
    /\ queue = [c \in Channels |-> << >>]
    /\ worker = [c \in Channels |-> "none"]
    /\ tasks = {}
    /\ calls = << >>
    /\ ninit = 0
    /\ sent = 0
    /\ lifecycle = "Uninitialized"
    /\ stale = [c \in Channels |-> << >>]

Init ==
    /\ AppInit
    /\ RegInit
    /\ WireIdle

Next ==
    \/ \E t \in HostThreads, path_ok \in BOOLEAN, plugin_ok \in BOOLEAN : init(t, path_ok, plugin_ok)
    \/ \E t \in HostThreads : destroy(t)
    \/ \E t \in HostThreads, p \in RawHandles : create_session(t, p)
    \/ \E t \in HostThreads, p \in RawHandles : destroy_session(t, p)
    \/ \E t \in HostThreads, p \in RawHandles, m \in Messages, outcome \in HandlerOutcomes, spawn \in BOOLEAN : handle_message(t, p, m, outcome, spawn)
    \/ \E t \in HostThreads, p \in RawHandles, ev \in MediaEvents : media_event(t, p, ev)
    \/ \E t \in HostThreads, p \in RawHandles : query_session(t, p)
    \/ \E k \in tasks : task_push_event(k)
    \/ \E k \in tasks, call \in TaskCalls : task_call(k, call)
    \/ \E k \in tasks : task_done(k)
    \/ \E c \in Channels, rc \in {0, 1} : deliver(c, rc)
    \/ \E c \in Channels : worker_exit(c)

Spec == Init /\ [][Next]_vars

\* The two registries under any sequence of register and unregister calls: the
\* reference-counting one, and the one inside the App of one host thread.
RegistryThread == CHOOSE t \in HostThreads : TRUE

RegistryNext ==
    \/ \E path_ok \in BOOLEAN, plugin_ok \in BOOLEAN : init(RegistryThread, path_ok, plugin_ok)
    \/ destroy(RegistryThread)
    \/ \E p \in RawHandles : create_session(RegistryThread, p)
    \/ \E p \in RawHandles : destroy_session(RegistryThread, p)
    \/ \E p \in RawHandles : HandleRegistry_add(p)
    \/ \E p \in RawHandles : HandleRegistry_remove(p)
    \/ HandleRegistry_clear
    \/ HandleRegistry_drop

RegistrySpec == Init /\ [][RegistryNext]_vars

\* The serialization bridge on its own: any typed value, with any document of
\* the host on the wire to begin with.
WireInit ==
    /\ AppInit
    /\ RegInit
    /\ typed \in {Some(x) : x \in TypedValues}
    /\ wire \in {Some(doc) : doc \in HostDocuments}
    /\ origin = "host"
    /\ back = None

WireNext ==
    \/ \E doc \in HostDocuments : receive(doc)
    \/ to_wire
    \/ from_wire

WireSpec == WireInit /\ [][WireNext]_vars

\* The program with its worker threads scheduled: a spawned worker that has a
\* command to take takes it, and one whose channel is closed and empty leaves
\* its loop. Host calls and application tasks are under no obligation.
WorkerFairness ==
    \A c \in Channels :
        /\ WF_vars(\E rc \in {0, 1} : deliver(c, rc))
        /\ WF_vars(worker_exit(c))

FairSpec == Init /\ [][Next]_vars /\ WorkerFairness

\* ------------------------------------------------------------------ claims
\* What the worker of channel c would do with the command at the head of its
\* queue, were it to take it now.
delivery(c, rc) == Backend_dispatch(WorkerThread(c), Head(queue[c]), rc)

Deliverable(c) == worker[c] = "running" /\ queue[c] # << >>

\* C1: while the container is Uninitialized (no successful init yet, or a
\* destroy not followed by a successful init) no session-level operation
\* succeeds: create_session, destroy_session, handle_message, the media events,
\* query_session and the delivery of a command each yield an error and change
\* nothing.
C1_NoOperationWhileUninitialized ==
    lifecycle = "Uninitialized" =>
        /\ \A t \in HostThreads, p \in RawHandles :
              /\ ~create_session_impl(t, p).result.ok
              /\ create_session_impl(t, p).app = APP[t]
              /\ ~destroy_session_impl(t, p).result.ok
              /\ destroy_session_impl(t, p).app = APP[t]
              /\ ~query_session_impl(t, p).ok
              /\ \A ev \in MediaEvents : ~dispatch_media_event(t, p, ev).result.ok
              /\ \A m \in Messages, outcome \in HandlerOutcomes :
                    /\ ~handle_message_impl(t, p, m, outcome).result.ok
                    /\ ~handle_message_impl(t, p, m, outcome).handled
        /\ \A c \in Channels, rc \in {0, 1} :
              Deliverable(c) => ~delivery(c, rc).result.ok /\ delivery(c, rc).calls = calls

\* C2: for every native session the releases (decrements of its reference
\* count) never exceed the acquisitions (increments), and the two are equal
\* whenever the registry holds no entry for the session.
C2_ReleasedExactlyOnce ==
    \A p \in RawHandles :
        /\ released[p] <= acquired[p]
        /\ fetch_id(p) \notin DOMAIN handles => released[p] = acquired[p]

\* The threads that are running: the host threads and the live workers.
LiveThreads == HostThreads \cup {WorkerThread(c) : c \in {d \in Channels : worker[d] = "running"}}

\* C4: the container is one state shared by all threads: once init has
\* succeeded, and until destroy, every thread finds the container Initialized
\* and finds the same registry in it.
C4_ContainerSharedByAllThreads ==
    lifecycle = "Initialized" =>
        \A t1 \in LiveThreads, t2 \in LiveThreads :
            /\ with_app(t1).some
            /\ with_app(t1).handle_registry = with_app(t2).handle_registry

\* C3: a queued command carries the session identity and no native reference,
\* and a delivery calls the host only for a session that has an entry in the
\* registry the worker reads at that moment, with the native reference of
\* that entry.
C3_CallbackOnlyForRegisteredSession ==
    /\ \A c \in Channels : \A i \in 1..Len(queue[c]) :
          /\ DOMAIN queue[c][i] = {"handle_id", "callback"}
          /\ queue[c][i].handle_id \in HandleIds
          /\ "raw_handle" \notin DOMAIN queue[c][i].callback
    /\ \A c \in Channels, rc \in {0, 1} :
          (Deliverable(c) /\ delivery(c, rc).calls # calls) =>
              LET app == with_app(WorkerThread(c))
                  id == Head(queue[c]).handle_id
              IN /\ app.some
                 /\ get_by_id(app.handle_registry, id).some
                 /\ Len(delivery(c, rc).calls) = Len(calls) + 1
                 /\ delivery(c, rc).calls[Len(calls) + 1].raw_handle =
                        get_by_id(app.handle_registry, id).val.raw_handle

\* A command waits for a running worker, and its session was unregistered
\* from the App that owns the channel after the command was submitted.
C3_Witness ==
    \E c \in Channels :
        /\ Deliverable(c)
        /\ \E t \in HostThreads : with_app(t).some /\ with_app(t).callback_dispatcher_tx = c
        /\ ~OwnerRegistered(c, Head(queue[c]).handle_id)
        /\ \A rc \in {0, 1} : delivery(c, rc).calls = calls

\* C5: the ack path hands exactly one message to the host: when the worker
\* takes a push_event command whose session is registered in the App that owns
\* the channel, that step calls the host's push_event once, for that session
\* and with the transaction of the command.
C5_AckPathDeliversExactlyOne ==
    [][\A c \in Channels :
          (/\ Deliverable(c)
           /\ queue'[c] = Tail(queue[c])
           /\ Head(queue[c]).callback.tag = "PushEvent"
           /\ OwnerRegistered(c, Head(queue[c]).handle_id))
          => /\ Len(calls') = Len(calls) + 1
             /\ SubSeq(calls', 1, Len(calls)) = calls
             /\ calls'[Len(calls')].fn = "push_event"
             /\ fetch_id(calls'[Len(calls')].raw_handle) = Head(queue[c]).handle_id
             /\ calls'[Len(calls')].args.transaction =
                    Head(queue[c]).callback.message.transaction]_vars

\* The messages the host's push_event has received for identity id, in order.
PushesDelivered(id) ==
    LET IsPush(x) == x.fn = "push_event" /\ fetch_id(x.raw_handle) = id
        s == SelectSeq(calls, IsPush)
    IN [i \in 1..Len(s) |-> s[i].args]

\* The messages of the push_event commands channel c still holds for id, in order.
PushesQueued(c, id) ==
    LET IsPush(x) == x.callback.tag = "PushEvent" /\ x.handle_id = id
        s == SelectSeq(queue[c], IsPush)
    IN [i \in 1..Len(s) |-> push_event_args(s[i].callback.message)]

\* C6: queued dispatch keeps the submission order: for a session registered in
\* the App that owns the channel, each step of the worker moves the oldest
\* queued push_event to the end of those the host has received, so the host
\* receives them in the order they were submitted.
C6_PushEventsDeliveredInOrder ==
    [][\A c \in Channels : \A id \in HandleIds :
          (/\ Deliverable(c)
           /\ queue'[c] = Tail(queue[c])
           /\ OwnerRegistered(c, id))
          => PushesDelivered(id)' \o PushesQueued(c, id)' =
                 PushesDelivered(id) \o PushesQueued(c, id)]_vars

\* C7: a registry holds at most one entry per identity: each entry sits under
\* the identity of its own session and handle, and registering an identity
\* that has an entry adds no entry and replaces none.
C7_AtMostOneEntryPerIdentity ==
    /\ \A t \in Threads : with_app(t).some =>
          LET reg == with_app(t).handle_registry IN
          /\ \A id \in DOMAIN reg :
                fetch_id(reg[id].raw_handle) = id /\ reg[id].plugin_handle.id = id
          /\ \A p \in RawHandles : get_by_raw_handle(reg, p).some =>
                /\ add(reg, p, build_handle(with_app(t), fetch_id(p))).reg = reg
                /\ create_session_impl(t, p).app.handle_registry = reg
    /\ \A id \in DOMAIN handles : fetch_id(handles[id][1]) = id /\ handles[id][2].id = id
    /\ \A p \in RawHandles :
          fetch_id(p) \in DOMAIN handles => HandleRegistry_add_impl(p).handles = handles

\* Both registries hold every session, so any register meets an entry.
C7_Witness ==
    /\ with_app(RegistryThread).some
    /\ DOMAIN with_app(RegistryThread).handle_registry = HandleIds
    /\ DOMAIN handles = HandleIds
    /\ \A p \in RawHandles : ~create_session_impl(RegistryThread, p).result.ok

\* C8: register on an identity that has an entry answers "Handle already
\* registered" (create_session reports 1) and leaves the entry as it was: the
\* same native reference, the same handle, the same reference count.
C8_RegisterExistingIsRejected ==
    /\ \A t \in Threads, p \in RawHandles :
          (with_app(t).some /\ get_by_raw_handle(with_app(t).handle_registry, p).some) =>
              LET r == create_session_impl(t, p)
                  a == add(with_app(t).handle_registry, p, build_handle(with_app(t), fetch_id(p)))
              IN /\ r.result = Err("Handle already registered")
                 /\ return_code(r.result) = 1
                 /\ r.app = with_app(t)
                 /\ a.result = Err("Handle already registered")
    /\ \A p \in RawHandles : fetch_id(p) \in DOMAIN handles =>
          LET r == HandleRegistry_add_impl(p)
          IN /\ r.result = Err("Handle already registered")
             /\ r.handles[fetch_id(p)] = handles[fetch_id(p)]
             /\ r.ref_count = ref_count

\* A session is registered in both registries, its reference is held once,
\* and a register of it has been turned down before.
C8_Witness ==
    \E p \in RawHandles :
        /\ with_app(RegistryThread).some
        /\ get_by_raw_handle(with_app(RegistryThread).handle_registry, p).some
        /\ return_code(create_session_impl(RegistryThread, p).result) = 1
        /\ fetch_id(p) \in DOMAIN handles
        /\ ref_count[p] = 2
        /\ acquired[p] = 1
        /\ \A q \in RawHandles : released[q] = 0
        /\ regops > 1

\* C9: a successful register of i makes both lookups return the entry it
\* inserted, with the handle built for i; an identity has an entry only from a
\* successful register of it, so a lookup of one never registered is empty.
C9_LookupReturnsInserted ==
    [][/\ \A t \in HostThreads, p \in RawHandles :
             create_session_impl(t, p).result.ok =>
                 LET reg == create_session_impl(t, p).app.handle_registry
                     e == Entry_new(p, build_handle(with_app(t), fetch_id(p)))
                 IN /\ get_by_id(reg, fetch_id(p)) = Some(e)
                    /\ get_by_raw_handle(reg, p) = Some(e)
                    /\ e.plugin_handle.id = fetch_id(p)
       /\ \A t \in HostThreads, id \in HandleIds :
             (/\ with_app(t)'.some
              /\ get_by_id(with_app(t)'.handle_registry, id).some
              /\ ~(with_app(t).some /\ get_by_id(with_app(t).handle_registry, id).some))
             => \E p \in RawHandles :
                    /\ fetch_id(p) = id
                    /\ create_session_impl(t, p).result.ok
                    /\ with_app(t)' = create_session_impl(t, p).app
       /\ \A p \in RawHandles :
             HandleRegistry_add_impl(p).result.ok =>
                 /\ HandleRegistry_add_impl(p).result.val = <<p, Handle_new(fetch_id(p))>>
                 /\ HandleRegistry_add_impl(p).handles[fetch_id(p)] = <<p, Handle_new(fetch_id(p))>>
       /\ \A id \in HandleIds :
             (id \in DOMAIN handles' /\ id \notin DOMAIN handles)
             => \E p \in RawHandles :
                    /\ fetch_id(p) = id
                    /\ HandleRegistry_add_impl(p).result.ok
                    /\ handles' = HandleRegistry_add_impl(p).handles]_vars

\* One session is registered in both registries and the lookups find it; the
\* other was never registered and the lookups of it are empty.
C9_Witness ==
    \E p \in RawHandles :
        /\ with_app(RegistryThread).some
        /\ DOMAIN with_app(RegistryThread).handle_registry = {fetch_id(p)}
        /\ get_by_raw_handle(with_app(RegistryThread).handle_registry, p).val.raw_handle = p
        /\ DOMAIN handles = {fetch_id(p)}
        /\ handles[fetch_id(p)] = <<p, Handle_new(fetch_id(p))>>
        /\ \A q \in RawHandles \ {p} : acquired[q] = 0

\* C10: unregister of a registered identity i leaves no entry for i and
\* leaves the entry of every other identity as it was.
C10_UnregisterRemovesOnlyThatEntry ==
    /\ \A t \in Threads, p \in RawHandles :
          (with_app(t).some /\ get_by_raw_handle(with_app(t).handle_registry, p).some) =>
              LET reg == with_app(t).handle_registry
                  r == destroy_session_impl(t, p)
              IN /\ r.result.ok
                 /\ get_by_id(r.app.handle_registry, fetch_id(p)) = None
                 /\ get_by_id(remove(reg, p).reg, fetch_id(p)) = None
                 /\ \A id \in HandleIds \ {fetch_id(p)} :
                       get_by_id(r.app.handle_registry, id) = get_by_id(reg, id)
    /\ \A p \in RawHandles : fetch_id(p) \in DOMAIN handles =>
          LET r == HandleRegistry_remove_impl(p)
          IN /\ fetch_id(p) \notin DOMAIN r.handles
             /\ \A id \in DOMAIN handles \ {fetch_id(p)} :
                   id \in DOMAIN r.handles /\ r.handles[id] = handles[id]

\* A session was registered and then unregistered while another one stays
\* registered, and an unregister in the App's registry meets two entries.
C10_Witness ==
    \E p \in RawHandles, q \in RawHandles :
        /\ p # q
        /\ acquired[p] = 1 /\ released[p] = 1 /\ fetch_id(p) \notin DOMAIN handles
        /\ acquired[q] = 1 /\ released[q] = 0 /\ fetch_id(q) \in DOMAIN handles
        /\ with_app(RegistryThread).some
        /\ DOMAIN with_app(RegistryThread).handle_registry = {fetch_id(p), fetch_id(q)}

\* C11: unregister of an identity that has no entry is a no-op: it reports
\* success, leaves the registry as it was and leaves the reference count of
\* the native session as it was.
C11_UnregisterAbsentIsNoOp ==
    [][/\ \A t \in Threads, p \in RawHandles :
             (with_app(t).some /\ ~get_by_raw_handle(with_app(t).handle_registry, p).some) =>
                 /\ destroy_session_impl(t, p).result.ok
                 /\ destroy_session_impl(t, p).app = with_app(t)
       /\ \A p \in RawHandles :
             (HandleRegistry_remove(p) /\ fetch_id(p) \notin DOMAIN handles) =>
                 /\ HandleRegistry_remove_impl(p).result.ok
                 /\ handles' = handles
                 /\ ref_count' = ref_count]_vars

\* C12: clear leaves the registry empty and releases the reference of each
\* entry once: the count of every session with an entry goes down by one,
\* every other count stays, so clear performs as many releases as there were
\* entries.
C12_ClearReleasesEachEntryOnce ==
    [][HandleRegistry_clear =>
          /\ handles' = << >>
          /\ \A p \in RawHandles :
                ref_count'[p] = IF fetch_id(p) \in DOMAIN handles THEN ref_count[p] - 1
                                ELSE ref_count[p]
          /\ Cardinality({p \in RawHandles : ref_count'[p] = ref_count[p] - 1}) =
                 Cardinality(DOMAIN handles)]_vars

\* Every session was registered once and one clear released them all.
C12_Witness ==
    /\ handles = << >>
    /\ regops = NumSessions + 1
    /\ \A p \in RawHandles : acquired[p] = 1 /\ released[p] = 1 /\ ref_count[p] = 1

\* C13: destroy drops the registry and releases the reference of every session
\* still registered, as clear does: once the registry is gone, the count of
\* every session that had an entry is back at its value before the register.
C13_DestroyReleasesReferences ==
    [][HandleRegistry_drop =>
          /\ handles' = << >>
          /\ \A p \in RawHandles :
                fetch_id(p) \in DOMAIN handles => ref_count'[p] = ref_count[p] - 1]_vars

\* C14: an init while the container is Initialized fails with "Plugin already
\* initialized" (status 1) and leaves the plugin instance, the dispatcher and
\* the registry as they were; no second App is made.
C14_SecondInitFails ==
    lifecycle = "Initialized" =>
        \A t \in HostThreads, path_ok \in BOOLEAN, plugin_ok \in BOOLEAN :
            /\ init_impl(t, path_ok, plugin_ok).result = Err("Plugin already initialized")
            /\ return_code(init_impl(t, path_ok, plugin_ok).result) = 1
            /\ init_impl(t, path_ok, plugin_ok).app = with_app(t)

\* C15: a container cell is Uninitialized (None) or Initialized (Some) and
\* moves only from Uninitialized to Initialized by a successful init and from
\* Initialized to Uninitialized by destroy: no session-level entry point and
\* no other step changes it, an Initialized cell keeps its plugin instance and
\* its channel, and destroy leaves an Uninitialized cell Uninitialized.
C15_ContainerTransitions ==
    [][\/ APP' = APP
       \/ \A t \in Threads :
             /\ (~with_app(t).some /\ with_app(t)'.some) =>
                    /\ t \in HostThreads
                    /\ init_impl(t, TRUE, TRUE).result.ok
                    /\ with_app(t)' = init_impl(t, TRUE, TRUE).app
                    /\ ninit' = ninit + 1
                    /\ lifecycle' = "Initialized"
             /\ (with_app(t).some /\ ~with_app(t)'.some) =>
                    /\ destroy(t)
                    /\ lifecycle' = "Uninitialized"
             /\ (with_app(t).some /\ with_app(t)'.some) =>
                    /\ with_app(t)'.plugin = with_app(t).plugin
                    /\ with_app(t)'.callback_dispatcher_tx = with_app(t).callback_dispatcher_tx
             /\ \A p \in RawHandles :
                    /\ create_session_impl(t, p).app.some = with_app(t).some
                    /\ destroy_session_impl(t, p).app.some = with_app(t).some
             /\ destroy(t) => ~with_app(t)'.some]_vars

\* A cell has gone through the cycle: the second App is alive, the first is gone.
C15_Witness ==
    /\ ninit = 2
    /\ \E t \in HostThreads :
          /\ with_app(t).some
          /\ with_app(t).plugin = 2
          /\ DOMAIN with_app(t).handle_registry # {}
          /\ \A u \in Threads \ {t} : ~with_app(u).some

\* C16: when the config path cannot be decoded or Plugin::init fails, init
\* reports 1 and the cell stays Uninitialized: no App, no channel and no worker
\* is made (there are as many workers as successful inits), and an init with
\* good arguments still succeeds afterwards.
C16_FailedInitLeavesUninitialized ==
    /\ \A t \in HostThreads, path_ok \in BOOLEAN, plugin_ok \in BOOLEAN :
          (~with_app(t).some /\ ~(path_ok /\ plugin_ok)) =>
              LET r == init_impl(t, path_ok, plugin_ok) IN
              /\ return_code(r.result) = 1
              /\ r.result.err \in {"Failed to cast config path", "Failed to init plugin"}
              /\ r.app = None
              /\ init_impl(t, TRUE, TRUE).result.ok
    /\ Cardinality({c \in Channels : worker[c] # "none"}) = ninit
    /\ \A t \in Threads : with_app(t).some => with_app(t).callback_dispatcher_tx \in 1..ninit

\* An init can fail here: a cell is Uninitialized, one init has succeeded
\* before and its worker is the only one there is.
C16_Witness ==
    /\ ninit = 1
    /\ worker[1] # "none"
    /\ \A t \in Threads : ~with_app(t).some
    /\ \A t \in HostThreads : ~init_impl(t, TRUE, FALSE).result.ok

\* Whether identity id is in the Registered state: some registry holds it.
Registered(id) ==
    \E t \in Threads : with_app(t).some /\ get_by_id(with_app(t).handle_registry, id).some

\* C17: with the container Initialized, handle_message, the media events and
\* query_session run the handle's handler only for a Registered identity; for
\* an Unregistered one they answer "Handle not found" and run no handler.
C17_UnregisteredYieldsHandleNotFound ==
    lifecycle = "Initialized" =>
        \A t \in HostThreads, p \in RawHandles :
            /\ \A m \in Messages, outcome \in HandlerOutcomes :
                  handle_message_impl(t, p, m, outcome).handled => Registered(fetch_id(p))
            /\ \A ev \in MediaEvents :
                  dispatch_media_event(t, p, ev).handled => Registered(fetch_id(p))
            /\ query_session_impl(t, p).ok => Registered(fetch_id(p))
            /\ ~Registered(fetch_id(p)) =>
                  /\ \A m \in Messages, outcome \in HandlerOutcomes :
                        handle_message_impl(t, p, m, outcome).result = Err("Handle not found")
                  /\ \A ev \in MediaEvents :
                        dispatch_media_event(t, p, ev).result = Err("Handle not found")
                  /\ query_session_impl(t, p) = Err("Handle not found")

\* Whether the App that made channel c is alive.
OwnerAlive(c) == \E t \in Threads : with_app(t).some /\ with_app(t).callback_dispatcher_tx = c

\* C18: the delivery of a command whose identity has no entry in the registry
\* of the App it was submitted to (removed, or never registered) fails with
\* "Handle not found": it calls no host function and does not panic.
C18_DeliveryToRemovedSessionNotFound ==
    \A c \in Channels, rc \in {0, 1} :
        (Deliverable(c) /\ OwnerAlive(c) /\ ~OwnerRegistered(c, Head(queue[c]).handle_id)) =>
            /\ delivery(c, rc).result = Err("Handle not found")
            /\ ~delivery(c, rc).panic
            /\ delivery(c, rc).calls = calls

C20_ConcurrentRegisterUnregister ==
    lifecycle = "Initialized" =>
        \A t \in HostThreads, p \in RawHandles :
            /\ destroy_session_impl(t, p).result.ok
            /\ ~Registered(fetch_id(p)) =>
                  /\ create_session_impl(t, p).result.ok
                  /\ \A q \in RawHandles :
                        Registered(fetch_id(q)) =>
                            get_by_raw_handle(create_session_impl(t, p).app.handle_registry, q).some

\* C21: handle_message on a session registered in the caller's container, with
\* a message that reaches the handler, hands the host the handler's outcome:
\* Syncronous(payload) reads as JANUS_PLUGIN_OK with the serialized payload for
\* content, Ack as JANUS_PLUGIN_OK_WAIT with no content, an error as
\* JANUS_PLUGIN_ERROR with a text; and a handle_message that starts no task
\* leaves the queues, the registries and the host calls as they were.
C21_HandlerOutcomeMapsToHostResult ==
    [][/\ \A t \in HostThreads, p \in RawHandles, m \in Messages, slot \in StackSlots :
             handle_message_impl(t, p, m, "Ack").handled =>
                 /\ handle_message_returned(t, p, m, "Syncronous", slot) =
                        [type_ |-> "JANUS_PLUGIN_OK", text |-> "",
                         content |-> Some([Pong |-> [data |-> m.payload.data]])]
                 /\ handle_message_returned(t, p, m, "Ack", slot) =
                        [type_ |-> "JANUS_PLUGIN_OK_WAIT", text |-> "", content |-> None]
                 /\ handle_message_returned(t, p, m, "Err", slot).type_ = "JANUS_PLUGIN_ERROR"
                 /\ handle_message_returned(t, p, m, "Err", slot).text = "Error handlung message"
                 /\ handle_message_returned(t, p, m, "Err", slot).content = None
       /\ \A t \in HostThreads, p \in RawHandles, m \in Messages, outcome \in HandlerOutcomes :
             handle_message(t, p, m, outcome, FALSE) =>
                 /\ queue' = queue
                 /\ APP' = APP
                 /\ calls' = calls]_vars

\* C22: the delivery of a push_event command for a session registered in the
\* App that owns the channel calls the host's push_event exactly once, and
\* follows its return code: 0 makes the delivery succeed, any other code makes
\* it fail with "Failed to push event".
C22_PushEventFollowsReturnCode ==
    \A c \in Channels, rc \in {0, 1} :
        (/\ Deliverable(c)
         /\ Head(queue[c]).callback.tag = "PushEvent"
         /\ OwnerRegistered(c, Head(queue[c]).handle_id))
        => /\ Len(delivery(c, rc).calls) = Len(calls) + 1
           /\ delivery(c, rc).calls[Len(calls) + 1].fn = "push_event"
           /\ ~delivery(c, rc).panic
           /\ delivery(c, rc).result =
                  IF rc = 0 THEN Ok("unit") ELSE Err("Failed to push event")

\* C23: every entry point hands the host its own form of the outcome: init
\* returns 0 for a success and 1 for a failure, create_session and
\* destroy_session write 0 or 1 to the error out-parameter, query_session
\* returns the document or a null pointer, and what the host reads from a
\* failed handle_message is a JANUS_PLUGIN_ERROR result with the error's text.
C23_FailuresConvertedAtBoundary ==
    \A t \in HostThreads :
        /\ \A path_ok \in BOOLEAN, plugin_ok \in BOOLEAN :
              return_code(init_impl(t, path_ok, plugin_ok).result) =
                  IF ~with_app(t).some /\ path_ok /\ plugin_ok THEN 0 ELSE 1
        /\ \A p \in RawHandles :
              /\ return_code(create_session_impl(t, p).result) =
                     IF create_session_impl(t, p).app # with_app(t) THEN 0 ELSE 1
              /\ return_code(destroy_session_impl(t, p).result) =
                     IF with_app(t).some THEN 0 ELSE 1
              /\ query_session_returned(t, p) =
                     IF with_app(t).some /\ get_by_raw_handle(with_app(t).handle_registry, p).some
                     THEN Some([id |-> fetch_id(p)]) ELSE None
              /\ \A m \in Messages, outcome \in HandlerOutcomes, slot \in StackSlots :
                    ~handle_message_impl(t, p, m, outcome).result.ok =>
                        /\ handle_message_returned(t, p, m, outcome, slot).type_ =
                               "JANUS_PLUGIN_ERROR"
                        /\ handle_message_returned(t, p, m, outcome, slot).text =
                               handle_message_impl(t, p, m, outcome).result.err

\* The relay calls application code may make, with empty and non-empty buffers.
RelayCalls == {call \in DispatcherCalls : call.fn \in {"relay_media_packet", "relay_data_packet"}}

\* C24: on a dispatcher whose worker is running, relay_media_packet and
\* relay_data_packet return Ok for a buffer of any length and add exactly one
\* command to the end of the queue: it carries the dispatcher's identity, the
\* protocol and kind given, and a buffer equal to the input.
C24_RelayEnqueuesCopyOfBuffer ==
    \A k \in tasks, call \in RelayCalls :
        worker[k.dispatcher.tx] = "running" =>
            LET r == dispatcher_call(k.dispatcher, call)
                c == k.dispatcher.tx
            IN /\ ~r.panic
               /\ r.result = Ok("unit")
               /\ Len(r.queue[c]) = Len(queue[c]) + 1
               /\ SubSeq(r.queue[c], 1, Len(queue[c])) = queue[c]
               /\ \A d \in Channels \ {c} : r.queue[d] = queue[d]
               /\ r.queue[c][Len(r.queue[c])].handle_id = k.dispatcher.handle_id
               /\ r.queue[c][Len(r.queue[c])].callback.buffer = call.buffer
               /\ r.queue[c][Len(r.queue[c])].callback.tag =
                      IF call.fn = "relay_data_packet" THEN "RelayDataPacket"
                      ELSE "RelayMediaPacket"
               /\ call.fn = "relay_media_packet" =>
                      /\ r.queue[c][Len(r.queue[c])].callback.protocol = call.protocol
                      /\ r.queue[c][Len(r.queue[c])].callback.kind = call.kind

\* C25: writing a typed value to the wire and reading the document back gives
\* the value again, for a ping-style payload and for both variants of Jsep; an
\* Offer is written with type "offer", an Answer with type "answer", and the
\* sdp string as it is.
C25_WireRoundTrip ==
    (origin = "to_wire" /\ typed.some) =>
        /\ wire.some
        /\ back.some => back.val = Ok(typed.val)
        /\ typed.val.variant = "Offer" => wire.val = [type |-> "offer", sdp |-> typed.val.sdp]
        /\ typed.val.variant = "Answer" => wire.val = [type |-> "answer", sdp |-> typed.val.sdp]
        /\ typed.val.variant = "Ping" => wire.val.data = typed.val.data

\* An Answer was written over a host document and read back.
C25_Witness ==
    /\ origin = "to_wire"
    /\ typed.some
    /\ typed.val.variant = "Answer"
    /\ typed.val.sdp = "v=0"
    /\ back = Some(Ok(typed.val))

\* The workers that are alive and not about to leave their loop: each still
\* has a command to take or a Sender that can hand it one.
DrainingWorkers ==
    {c \in Channels : worker[c] = "running" /\ (queue[c] # << >> \/ HasSenders(c))}

\* C26: at most one dispatch worker drains commands, across any sequence of
\* init and destroy: an init that finds every container cell Uninitialized
\* (after a destroy, with clones of the old dispatcher still held by
\* application tasks) leaves its own worker as the only one.
C26_AtMostOneWorker ==
    [][((\A t \in Threads : ~with_app(t).some) /\ (\E t \in Threads : with_app(t)'.some))
          => Cardinality(DrainingWorkers') <= 1]_vars

C28_HandleBuiltOnlyOnRegistration ==
    \A t \in HostThreads, p \in RawHandles :
        /\ create_session_impl(t, p).built = IF create_session_impl(t, p).result.ok THEN 1 ELSE 0
        /\ (with_app(t).some /\ get_by_raw_handle(with_app(t).handle_registry, p).some) =>
               /\ ~create_session_impl(t, p).result.ok
               /\ create_session_impl(t, p).built = 0

\* C29: a command reaches only the registration that was current when it was
\* submitted: the delivery of a command whose registration is gone (its
\* session unregistered, or the container destroyed) calls no host function,
\* also when its identity has been registered again in the meantime.
C29_StaleCommandNotDelivered ==
    /\ \A c \in Channels : Len(stale[c]) = Len(queue[c])
    /\ \A c \in Channels, rc \in {0, 1} :
          (Deliverable(c) /\ Head(stale[c])) => delivery(c, rc).calls = calls

\* A command waits for a running worker; its session was unregistered after
\* it was submitted and registered again, in the App that owns the channel.
C29_Witness ==
    \E c \in Channels :
        /\ Deliverable(c)
        /\ Head(stale[c])
        /\ OwnerRegistered(c, Head(queue[c]).handle_id)
        /\ \A rc \in {0, 1} : ~delivery(c, rc).result.ok

\* C30: host functions are called on the worker thread only: every call a
\* task makes on its dispatcher returns a Result, having at most added one
\* command to the end of a queue, and leaves the host calls as they were,
\* whatever the state of the worker; the host calls grow only in a step of
\* the worker's loop.
C30_CallbacksOnlyOnWorkerThread ==
    [][/\ \A k \in tasks, call \in DispatcherCalls :
             LET r == dispatcher_call(k.dispatcher, call) IN
             /\ ~r.panic
             /\ \A c \in Channels :
                   \/ r.queue[c] = queue[c]
                   \/ /\ c = k.dispatcher.tx
                      /\ Len(r.queue[c]) = Len(queue[c]) + 1
                      /\ SubSeq(r.queue[c], 1, Len(queue[c])) = queue[c]
       /\ \A k \in tasks :
             ~CallbackDispatcher_push_event(k.dispatcher, task_message(k)).panic
       /\ \/ calls' = calls
          \/ /\ \E c \in Channels : Deliverable(c) /\ queue'[c] = Tail(queue[c])
             /\ tasks' = tasks]_vars

\* C31: the delivery of a command for a session registered in the App that
\* owns the channel calls exactly one host function, the one of the command's
\* kind (relay_rtp, relay_rtcp, relay_data, close_pc, end_session,
\* notify_event, push_event), with the native reference registered under the
\* command's identity.
C31_DeliveryCallsMatchingHostFunction ==
    \A c \in Channels, rc \in {0, 1} :
        (Deliverable(c) /\ OwnerRegistered(c, Head(queue[c]).handle_id)) =>
            LET cb == Head(queue[c]).callback
                fn == CASE cb.tag = "RelayMediaPacket" ->
                               (IF cb.protocol = "Rtp" THEN "relay_rtp" ELSE "relay_rtcp")
                        [] cb.tag = "RelayDataPacket" -> "relay_data"
                        [] cb.tag = "ClosePeerConnection" -> "close_pc"
                        [] cb.tag = "EndHandle" -> "end_session"
                        [] cb.tag = "NotifyEvent" -> "notify_event"
                        [] cb.tag = "PushEvent" -> "push_event"
                d == delivery(c, rc)
            IN /\ Len(d.calls) = Len(calls) + 1
               /\ SubSeq(d.calls, 1, Len(calls)) = calls
               /\ d.calls[Len(d.calls)].fn = fn
               /\ fetch_id(d.calls[Len(d.calls)].raw_handle) = Head(queue[c]).handle_id
               /\ \E t \in Threads :
                     /\ with_app(t).some
                     /\ with_app(t).callback_dispatcher_tx = c
                     /\ get_by_id(with_app(t).handle_registry,
                                  Head(queue[c]).handle_id).val.raw_handle =
                            d.calls[Len(d.calls)].raw_handle

\* C32: every command carries the identity of the handle whose dispatcher
\* enqueued it: the dispatcher of the handle registered under i is tagged i
\* and sends on its App's channel, every clone a task holds is tagged with the
\* identity of a session, each call on a dispatcher adds a command with the
\* dispatcher's tag, and a delivery that calls the host calls it for the
\* session of the command's tag.
C32_CommandCarriesSubmitterIdentity ==
    /\ \A t \in Threads : with_app(t).some =>
          \A id \in DOMAIN with_app(t).handle_registry :
              with_app(t).handle_registry[id].plugin_handle.callback_dispatcher =
                  [tx |-> with_app(t).callback_dispatcher_tx, handle_id |-> id]
    /\ \A k \in tasks :
          /\ k.dispatcher.handle_id \in HandleIds
          /\ \A call \in DispatcherCalls \cup {[fn |-> "push_event"]} :
                LET r == IF call.fn = "push_event"
                         THEN CallbackDispatcher_push_event(k.dispatcher, task_message(k))
                         ELSE dispatcher_call(k.dispatcher, call)
                    q == r.queue[k.dispatcher.tx]
                IN r.queue # queue => q[Len(q)].handle_id = k.dispatcher.handle_id
    /\ \A c \in Channels : \A i \in 1..Len(queue[c]) : queue[c][i].handle_id \in HandleIds
    /\ \A c \in Channels, rc \in {0, 1} :
          (Deliverable(c) /\ delivery(c, rc).calls # calls) =>
              fetch_id(delivery(c, rc).calls[Len(delivery(c, rc).calls)].raw_handle) =
                  Head(queue[c]).handle_id

\* Two tasks hold the dispatchers of two sessions of one App, and each has
\* put a command of its own identity on the App's channel.
C32_Witness ==
    \E c \in Channels :
        /\ Len(queue[c]) = 2
        /\ queue[c][1].handle_id # queue[c][2].handle_id
        /\ {k.dispatcher.handle_id : k \in tasks} = {queue[c][1].handle_id, queue[c][2].handle_id}
        /\ \A k \in tasks : k.dispatcher.tx = c

\* C33: only init, destroy, create_session and destroy_session change the
\* entries of a registry: a step that changes a container cell is one of
\* these four and is no handle_message, media event, query_session or
\* delivery, and those leave every registry and every reference count of a
\* native session as they were.
C33_OnlyLifecycleChangesRegistry ==
    [][\/ /\ APP' = APP
          /\ handles' = handles
          /\ ref_count' = ref_count
       \/ /\ \E t \in HostThreads :
                \/ \E path_ok \in BOOLEAN, plugin_ok \in BOOLEAN : init(t, path_ok, plugin_ok)
                \/ destroy(t)
                \/ \E p \in RawHandles : create_session(t, p) \/ destroy_session(t, p)
          /\ \A t \in HostThreads, p \in RawHandles :
                /\ ~query_session(t, p)
                /\ \A ev \in MediaEvents : ~media_event(t, p, ev)
                /\ \A m \in Messages, outcome \in HandlerOutcomes, spawn \in BOOLEAN :
                      ~handle_message(t, p, m, outcome, spawn)
          /\ \A c \in Channels, rc \in {0, 1} : ~deliver(c, rc)]_vars

\* Both sessions are registered in one App, a handle_message has started a
\* task for each, and the worker has taken both commands they submitted.
C33_Witness ==
    \E t \in HostThreads :
        /\ with_app(t).some
        /\ DOMAIN with_app(t).handle_registry = HandleIds
        /\ Cardinality(tasks) = 2
        /\ sent = 2
        /\ queue[with_app(t).callback_dispatcher_tx] = << >>
        /\ worker[with_app(t).callback_dispatcher_tx] = "running"
        /\ \A k \in tasks : k.dispatcher.tx = with_app(t).callback_dispatcher_tx

\* C34: a successful init of the Uninitialized container (the first one, or
\* one after a destroy) starts from an empty registry: right after it no
\* identity has an entry, and wherever the container is found Initialized,
\* handle_message answers "Handle not found" and create_session succeeds for
\* every session.
C34_InitStartsFromEmptyRegistry ==
    [][(lifecycle = "Uninitialized" /\ lifecycle' = "Initialized") =>
          /\ \A id \in HandleIds : ~Registered(id)'
          /\ \A t \in HostThreads, p \in RawHandles :
                with_app(t)'.some =>
                    /\ \A m \in Messages, outcome \in HandlerOutcomes :
                          handle_message_impl(t, p, m, outcome)'.result = Err("Handle not found")
                    /\ create_session_impl(t, p)'.result.ok]_vars

\* C35: for a session registered in the caller's App and a message whose
\* payload or jsep document does not deserialize, what the host reads from
\* handle_message is a JANUS_PLUGIN_ERROR result with the error's text and no
\* content, Handle::handle_message has not run, and the call can start no
\* task and enqueues no command.
C35_UndeserializableMessageRejected ==
    \A t \in HostThreads, p \in RawHandles, m \in Messages :
        (/\ with_app(t).some
         /\ get_by_raw_handle(with_app(t).handle_registry, p).some
         /\ m.transaction_ok
         /\ \/ ~deserialize_payload(m.payload).ok
            \/ m.jsep.some /\ ~deserialize_jsep(m.jsep.val).ok)
        => \A outcome \in HandlerOutcomes :
              /\ ~handle_message_impl(t, p, m, outcome).handled
              /\ ~handle_message_impl(t, p, m, outcome).result.ok
              /\ ~ENABLED handle_message(t, p, m, outcome, TRUE)
              /\ \A slot \in StackSlots :
                    handle_message_returned(t, p, m, outcome, slot) =
                        [type_ |-> "JANUS_PLUGIN_ERROR",
                         text |-> handle_message_impl(t, p, m, outcome).result.err,
                         content |-> None]

\* Whether a clone of the dispatcher of channel c is left: inside a handle of
\* a registry, or held by an application task.
HasClones(c) ==
    \/ \E k \in tasks : k.dispatcher.tx = c
    \/ \E t \in Threads :
          /\ APP[t].some
          /\ \E id \in DOMAIN APP[t].handle_registry :
                APP[t].handle_registry[id].plugin_handle.callback_dispatcher.tx = c

\* C36: once the container has been destroyed and no clone of a worker's
\* dispatcher is left, in a handle or in an application task, the worker
\* makes no host call for the commands still queued and leaves its loop.
C36_WorkerTerminatesAfterDestroy ==
    /\ \A c \in Channels :
          (worker[c] = "running" /\ lifecycle = "Uninitialized" /\ ~HasClones(c))
              ~> (worker[c] = "exited")
    /\ [][\A c \in Channels, rc \in {0, 1} :
             (lifecycle = "Uninitialized" /\ ~HasClones(c) /\ deliver(c, rc))
                 => calls' = calls]_vars

====
